---- MODULE Spec2Model ----
(***************************************************************************)
(* Model of src/src/main.ts: the pull-request review pipeline.             *)
(*                                                                         *)
(* Strings that the code inspects character by character (file paths,      *)
(* glob patterns, the comma-separated `exclude` input, line references,    *)
(* raw model text) are tuples of one-character strings.                    *)
(***************************************************************************)
EXTENDS Integers, Sequences, FiniteSets, TLC

VARIABLES
    pc,              \* position of main() between its awaits
    eventAction,     \* eventData.action
    excludeInput,    \* core.getInput("exclude")
    diff,            \* the diff text main() holds, if it has asked for one
    parsedDiff,      \* parseDiff(diff)
    filteredDiff,    \* parsedDiff.filter(...)
    diffChunkData,   \* gatherDiffData(filteredDiff)
    rawAiResponse,   \* result of getAIResponse
    correction,      \* what the correction request did, if it was made
    allReviews,      \* result of getFormattedAIResponse
    comments,        \* result of mapReviewsToComments
    calls,           \* external calls made so far, in order
    submitted,       \* comment lists accepted by octokit.pulls.createReview
    exitCode         \* "none" while running, then "0" or "1"

vars == << pc, eventAction, excludeInput, diff, parsedDiff, filteredDiff,
           diffChunkData, rawAiResponse, correction, allReviews, comments,
           calls, submitted, exitCode >>

----------------------------------------------------------------------------
(* Bounds                                                                  *)

MaxFiles == 2
MaxItems == 2
MaxRefLen == 3

----------------------------------------------------------------------------
(* Strings                                                                 *)

\* An absent numeric field of a parse-diff change (undefined is falsy, as 0).
Undef == 0

\* parseInt's NaN.  parseInt never yields a negative number once the signs
\* have been removed, so -1 is free to stand for it.
NaN == -1

DevNull == << "/", "d", "e", "v", "/", "n", "u", "l", "l" >>
PathPy  == << "a", ".", "p", "y" >>
PathMd  == << "b", ".", "m", "d" >>
NoPath  == << >>

Digits == << "0", "1", "2", "3", "4", "5", "6", "7", "8", "9" >>

IsDigit(c) == \E i \in 1..10 : Digits[i] = c

DigitValue(c) == (CHOOSE i \in 1..10 : Digits[i] = c) - 1

IsSpace(c) == c = " "

\* String.prototype.trim
RECURSIVE TrimLeft(_)
TrimLeft(s) ==
    IF s # << >> /\ IsSpace(Head(s)) THEN TrimLeft(Tail(s)) ELSE s

RECURSIVE TrimRight(_)
TrimRight(s) ==
    IF s # << >> /\ IsSpace(s[Len(s)])
    THEN TrimRight(SubSeq(s, 1, Len(s) - 1))
    ELSE s

Trim(s) == TrimRight(TrimLeft(s))

\* String.prototype.split(sep) for a one-character separator
RECURSIVE SplitFrom(_, _, _, _)
SplitFrom(s, sep, cur, acc) ==
    IF s = << >> THEN Append(acc, cur)
    ELSE IF Head(s) = sep
         THEN SplitFrom(Tail(s), sep, << >>, Append(acc, cur))
         ELSE SplitFrom(Tail(s), sep, Append(cur, Head(s)), acc)

Split(s, sep) == SplitFrom(s, sep, << >>, << >>)

----------------------------------------------------------------------------
(* minimatch(path, pattern), for patterns made of literal characters, `*`  *)
(* and `?`: the path and the pattern are split at "/", must have the same  *)
(* number of parts, and match part by part; `*` and `?` never match "/",   *)
(* a part whose pattern starts with `*` or `?` must be non-empty and must  *)
(* not start with a dot; the empty pattern matches only the empty path.    *)

RECURSIVE PartMatchFrom(_, _)
PartMatchFrom(p, g) ==
    IF g = << >> THEN p = << >>
    ELSE IF Head(g) = "*"
         THEN \/ PartMatchFrom(p, Tail(g))
              \/ (p # << >> /\ PartMatchFrom(Tail(p), g))
    ELSE IF Head(g) = "?"
         THEN p # << >> /\ PartMatchFrom(Tail(p), Tail(g))
    ELSE p # << >> /\ Head(p) = Head(g) /\ PartMatchFrom(Tail(p), Tail(g))

PartMatch(p, g) ==
    /\ (g # << >> /\ Head(g) \in {"*", "?"}) => (p # << >> /\ Head(p) # ".")
    /\ PartMatchFrom(p, g)

minimatch(path, pattern) ==
    IF pattern = << >> THEN path = << >>
    ELSE LET ps == Split(path, "/")
             gs == Split(pattern, "/")
         IN  /\ Len(ps) = Len(gs)
             /\ \A i \in 1..Len(ps) : PartMatch(ps[i], gs[i])

----------------------------------------------------------------------------
(* Parsed diffs (what parse-diff returns)                                  *)

\* A change as parse-diff numbers it: an added line carries ln (its new
\* number), a deleted line ln (its old number), a context line ln1 (old)
\* and ln2 (new).
AddChange(n, text)      == [type |-> "add", ln |-> n, ln1 |-> Undef, ln2 |-> Undef, content |-> text]
DelChange(n, text)      == [type |-> "del", ln |-> n, ln1 |-> Undef, ln2 |-> Undef, content |-> text]
NormalChange(o, n, text) == [type |-> "normal", ln |-> Undef, ln1 |-> o, ln2 |-> n, content |-> text]

\* @@ -0,0 +1,3 @@ : three added lines
HAdd == [content |-> "@@ -0,0 +1,3 @@",
         changes |-> << AddChange(1, "+x"), AddChange(2, "+y"), AddChange(3, "+z") >>]

\* @@ -5,2 +5,1 @@ : one context line and one deleted line
HDel == [content |-> "@@ -5,2 +5,1 @@",
         changes |-> << NormalChange(5, 5, " k"), DelChange(6, "-d") >>]

\* @@ -10,2 +9,2 @@ : a context line, a deleted line and an added line
HMix == [content |-> "@@ -10,2 +9,2 @@",
         changes |-> << NormalChange(10, 9, " k"), DelChange(11, "-d"), AddChange(10, "+a") >>]

Hunks == {HAdd, HDel, HMix}

HunkLists == { << >>, << HAdd >>, << HDel >>, << HAdd, HMix >>, << HDel, HAdd >> }

Paths == {PathPy, PathMd, DevNull, NoPath}

Files == [to : Paths, chunks : HunkLists]

SeqsUpTo(S, n) == UNION { [1..k -> S] : k \in 0..n }

Diffs == SeqsUpTo(Files, MaxFiles)

\* Values of the `exclude` input: "", "*.md", "*.md, a.py", "*", "/dev/*"
ExcludeInputs ==
    { << >>,
      << "*", ".", "m", "d" >>,
      << "*", ".", "m", "d", ",", " ", "a", ".", "p", "y" >>,
      << "*" >>,
      << "/", "d", "e", "v", "/", "*" >> }

----------------------------------------------------------------------------
(* main(): exclusion filter                                                *)

\* core.getInput("exclude").split(",").map((s) => s.trim())
excludePatterns(input) ==
    LET parts == Split(input, ",")
    IN  [i \in 1..Len(parts) |-> Trim(parts[i])]

\* excludePatterns.some((pattern) => minimatch(file.to ?? "", pattern))
IsExcludedByAll(file, patterns) ==
    \A i \in 1..Len(patterns) : minimatch(file.to, patterns[i])

IsExcluded(file, patterns) ==
    \E i \in 1..Len(patterns) : minimatch(file.to, patterns[i])

\* Array.prototype.filter
RECURSIVE SelectFiles(_, _)
SelectFiles(files, patterns) ==
    IF files = << >> THEN << >>
    ELSE IF IsExcluded(Head(files), patterns)
         THEN SelectFiles(Tail(files), patterns)
         ELSE << Head(files) >> \o SelectFiles(Tail(files), patterns)

FilterDiff(files, input) == SelectFiles(files, excludePatterns(input))

----------------------------------------------------------------------------
(* gatherDiffData                                                          *)

\* if (file.to === "/dev/null") continue;
IsDeletedFileNever(file) == FALSE

IsDeletedFile(file) == file.to = DevNull

\* globalIndex++
NextIndexStuck(i) == i

NextIndex(i) == i + 1

\* `${c.ln ? c.ln : c.ln2} ${c.content}`
ChangeLineOldFirst(c) ==
    << (IF c.type = "normal" THEN c.ln1 ELSE c.ln), c.content >>

ChangeLine(c) == << (IF c.ln # Undef THEN c.ln ELSE c.ln2), c.content >>

\* [chunk.content, ...chunk.changes.map(...)].join("\n"), kept as its lines
chunkDiffText(chunk) ==
    << chunk.content >> \o [i \in 1..Len(chunk.changes) |-> ChangeLine(chunk.changes[i])]

\* the inner loop: for (const chunk of file.chunks) { diffChunkData.push(...) }
RECURSIVE GatherChunks(_, _, _)
GatherChunks(file, chunks, st) ==
    IF chunks = << >> THEN st
    ELSE GatherChunks(file, Tail(chunks),
            [out |-> Append(st.out, [chunkIndex |-> st.globalIndex,
                                     filePath   |-> file.to,
                                     diffText   |-> chunkDiffText(Head(chunks))]),
             globalIndex |-> NextIndex(st.globalIndex)])

\* the outer loop: for (const file of parsedDiff)
RECURSIVE GatherFiles(_, _)
GatherFiles(files, st) ==
    IF files = << >> THEN st
    ELSE IF IsDeletedFile(Head(files))
         THEN GatherFiles(Tail(files), st)
         ELSE GatherFiles(Tail(files), GatherChunks(Head(files), Head(files).chunks, st))

gatherDiffData(files) == GatherFiles(files, [out |-> << >>, globalIndex |-> 0]).out

----------------------------------------------------------------------------
(* getAIResponse and getFormattedAIResponse                                *)

\* A value of type string | null.
NullString == [isNull |-> TRUE, text |-> << >>]
Str(s)     == [isNull |-> FALSE, text |-> s]

\* What the primary model call can do: throw, or answer with some content
\* (a missing content is "" by `message?.content || ""`).
PrimaryContents == { << >>, << " " >>, << "[", "]" >>, << " ", "[", "]" >> }

PrimaryOutcomes ==
    { [throws |-> TRUE, content |-> << >>] }
    \cup { [throws |-> FALSE, content |-> c] : c \in PrimaryContents }

\* try { ... return content.trim(); } catch (error) { return null; }
getAIResponse(outcome) ==
    IF outcome.throws THEN NullString ELSE Str(Trim(outcome.content))

\* if (!rawContent) return [];
IsFalsyNullOnly(raw) == raw.isNull

IsFalsy(raw) == raw.isNull \/ raw.text = << >>

\* What openai.beta.chat.completions.parse can do: the request fails, the
\* answer does not parse against ReviewSchema (the helper throws), the model
\* refuses (parsed is null), or the answer parses.
\* `review` is the list of review items the answer holds: all of it when
\* the answer parses, the well-formed part of it when it does not.
NoCorrection == [kind |-> "none", review |-> << >>]

Outcome(k, r) == [kind |-> k, review |-> r]

\* return response.choices[0].message.parsed?.review || [];
\* } catch (error) { return []; }
CorrectionResultLeaky(outcome) ==
    IF outcome.kind = "refusal" THEN << >> ELSE outcome.review

CorrectionResult(outcome) ==
    IF outcome.kind = "parsed" THEN outcome.review ELSE << >>

----------------------------------------------------------------------------
(* mapReviewsToComments                                                    *)

\* review.lineNumber.replace(/[+-]/g, "")
RECURSIVE StripPlusOnly(_)
StripPlusOnly(s) ==
    IF s = << >> THEN << >>
    ELSE IF Head(s) = "+" THEN StripPlusOnly(Tail(s))
    ELSE << Head(s) >> \o StripPlusOnly(Tail(s))

RECURSIVE StripSigns(_)
StripSigns(s) ==
    IF s = << >> THEN << >>
    ELSE IF Head(s) \in {"+", "-"} THEN StripSigns(Tail(s))
    ELSE << Head(s) >> \o StripSigns(Tail(s))

\* parseInt(s, 10) on a string without signs: leading white space is
\* skipped, the longest prefix of digits is read, NaN if it is empty.
RECURSIVE ReadDigits(_, _, _)
ReadDigits(s, seen, acc) ==
    IF s # << >> /\ IsDigit(Head(s))
    THEN ReadDigits(Tail(s), TRUE, acc * 10 + DigitValue(Head(s)))
    ELSE IF seen THEN acc ELSE NaN

parseInt(s) == ReadDigits(TrimLeft(s), FALSE, 0)

numericLine(lineNumber) == parseInt(StripSigns(lineNumber))

\* diffChunks.find((c) => c.chunkIndex === item.chunkIndex):
\* << >> for undefined, else the first chunk with that index
RECURSIVE FindChunkOrFirstFrom(_, _, _)
FindChunkOrFirstFrom(diffChunks, idx, all) ==
    IF diffChunks = << >> THEN (IF all = << >> THEN << >> ELSE << Head(all) >>)
    ELSE IF Head(diffChunks).chunkIndex = idx THEN << Head(diffChunks) >>
    ELSE FindChunkOrFirstFrom(Tail(diffChunks), idx, all)

FindChunkOrFirst(diffChunks, idx) == FindChunkOrFirstFrom(diffChunks, idx, diffChunks)

RECURSIVE FindChunk(_, _)
FindChunk(diffChunks, idx) ==
    IF diffChunks = << >> THEN << >>
    ELSE IF Head(diffChunks).chunkIndex = idx THEN << Head(diffChunks) >>
    ELSE FindChunk(Tail(diffChunks), idx)

\* if (review.side === "LEFT") continue;
SkipReviewNever(review) == FALSE

SkipReview(review) == review.side = "LEFT"

\* comments.push({ body, path, line, side })
MakeCommentOffByOne(chunkData, review) ==
    [body |-> review.reviewComment,
     path |-> chunkData.filePath,
     line |-> numericLine(review.lineNumber) - 1,
     side |-> review.side]

MakeComment(chunkData, review) ==
    [body |-> review.reviewComment,
     path |-> chunkData.filePath,
     line |-> numericLine(review.lineNumber),
     side |-> review.side]

\* the inner loop: for (const review of item.reviews)
RECURSIVE MapReviews(_, _, _)
MapReviews(chunkData, reviews, out) ==
    IF reviews = << >> THEN out
    ELSE IF SkipReview(Head(reviews))
         THEN MapReviews(chunkData, Tail(reviews), out)
         ELSE MapReviews(chunkData, Tail(reviews),
                         Append(out, MakeComment(chunkData, Head(reviews))))

\* the outer loop: for (const item of allReviews)
RECURSIVE MapItems(_, _, _)
MapItems(diffChunks, items, out) ==
    IF items = << >> THEN out
    ELSE LET found == FindChunk(diffChunks, Head(items).chunkIndex)
         IN  IF found = << >>
             THEN MapItems(diffChunks, Tail(items), out)
             ELSE MapItems(diffChunks, Tail(items),
                           MapReviews(found[1], Head(items).reviews, out))

mapReviewsToComments(diffChunks, items) == MapItems(diffChunks, items, << >>)

----------------------------------------------------------------------------
(* Model output                                                            *)

Review(ref, s, text) == [lineNumber |-> ref, side |-> s, reviewComment |-> text]

RPlus2   == Review(<< "+", "2" >>, "RIGHT", "possible off-by-one")
RLeft7   == Review(<< "-", "7" >>, "LEFT", "removed check still needed")
R42      == Review(<< "4", "2" >>, "RIGHT", "unused variable")
RMinus1  == Review(<< "-", "1" >>, "RIGHT", "wrong default")
RNoLine  == Review(<< "L", "3" >>, "RIGHT", "typo")
RLeft2   == Review(<< "+", "2" >>, "LEFT", "old call")

ReviewLists ==
    { << >>, << RPlus2 >>, << RLeft7 >>, << RPlus2, RLeft7 >>, << RLeft2, R42 >>,
      << RMinus1, RPlus2 >>, << RNoLine >> }

\* chunkIndex values the model may answer with; 99 never names a chunk
ChunkRefs == {0, 1, 99}

ReviewItems == [chunkIndex : ChunkRefs, reviews : ReviewLists]

ReviewSets == SeqsUpTo(ReviewItems, MaxItems)

----------------------------------------------------------------------------
(* main()                                                                  *)

EventKinds == {"opened", "synchronize", "closed"}

File(path, hunks) == [to |-> path, chunks |-> hunks]

\* Diffs and model answers of the whole-pipeline specification
PipelineDiffs ==
    { << >>,
      << File(PathPy, << HAdd >>) >>,
      << File(DevNull, << HDel >>) >>,
      << File(PathMd, << HAdd >>), File(PathPy, << HDel, HAdd >>) >> }

PipelineReviews ==
    { << >>,
      << [chunkIndex |-> 0, reviews |-> << RPlus2 >>] >>,
      << [chunkIndex |-> 0, reviews |-> << RLeft7 >>] >>,
      << [chunkIndex |-> 99, reviews |-> << R42 >>],
         [chunkIndex |-> 1, reviews |-> << R42, RLeft7 >>] >> }

CorrectionOutcomes ==
    { Outcome("callFails", << >>), Outcome("refusal", << >>) }
    \cup { Outcome("schemaInvalid", r) : r \in PipelineReviews }
    \cup { Outcome("parsed", r) : r \in PipelineReviews }

Exit(code) ==
    /\ pc' = "done"
    /\ exitCode' = code

\* const prDetails = await getPRDetails();
GetPRDetails ==
    /\ pc = "start"
    /\ pc' = "event"
    /\ calls' = Append(calls, "pulls.get")
    /\ UNCHANGED << eventAction, excludeInput, diff, parsedDiff, filteredDiff, diffChunkData,
                    rawAiResponse, correction, allReviews, comments, submitted, exitCode >>

\* getPRDetails rejects: the event payload cannot be read (no request is
\* made) or the request fails; main().catch exits 1
GetPRDetailsFails ==
    /\ pc = "start"
    /\ \E requested \in BOOLEAN :
          calls' = IF requested THEN Append(calls, "pulls.get") ELSE calls
    /\ Exit("1")
    /\ UNCHANGED << eventAction, excludeInput, diff, parsedDiff, filteredDiff, diffChunkData,
                    rawAiResponse, correction, allReviews, comments, submitted >>

\* else { console.log("Unsupported event:", ...); return; }
UnsupportedEvent ==
    /\ pc = "event"
    /\ eventAction \notin {"opened", "synchronize"}
    /\ Exit("0")
    /\ UNCHANGED << eventAction, excludeInput, diff, parsedDiff, filteredDiff, diffChunkData,
                    rawAiResponse, correction, allReviews, comments, calls, submitted >>

DiffCall == IF eventAction = "opened" THEN "getDiff" ELSE "compareCommits"

\* A value of `diff`: null, "", or a text; `files` is what parse-diff finds
\* in the text, which is nothing when the text holds no diff.
NotFetched      == [kind |-> "none", files |-> << >>]
NullDiff        == [kind |-> "null", files |-> << >>]
EmptyDiff       == [kind |-> "empty", files |-> << >>]
DiffText(files) == [kind |-> "text", files |-> files]

\* getDiff returns response.data (string | null); for a push to the pull
\* request diff = String(response.data), which is never null
MissingDiffs ==
    IF eventAction = "opened" THEN {NullDiff, EmptyDiff} ELSE {EmptyDiff}

\* parseDiff(diff)
parseDiff(d) == d.files

\* diff = await getDiff(...)  /  await octokit.repos.compareCommits(...),
\* then const parsedDiff = parseDiff(diff);
FetchDiff ==
    /\ pc = "event"
    /\ eventAction \in {"opened", "synchronize"}
    /\ calls' = Append(calls, DiffCall)
    /\ \E d \in PipelineDiffs : diff' = DiffText(d)
    /\ parsedDiff' = parseDiff(diff')
    /\ pc' = "parsed"
    /\ UNCHANGED << eventAction, excludeInput, filteredDiff, diffChunkData,
                    rawAiResponse, correction, allReviews, comments, submitted, exitCode >>

\* if (!diff) { console.log("No diff found"); return; }
FetchDiffEmpty ==
    /\ pc = "event"
    /\ eventAction \in {"opened", "synchronize"}
    /\ calls' = Append(calls, DiffCall)
    /\ diff' \in MissingDiffs
    /\ Exit("0")
    /\ UNCHANGED << eventAction, excludeInput, parsedDiff, filteredDiff, diffChunkData,
                    rawAiResponse, correction, allReviews, comments, submitted >>

\* the diff request rejects; main().catch exits 1
FetchDiffFails ==
    /\ pc = "event"
    /\ eventAction \in {"opened", "synchronize"}
    /\ calls' = Append(calls, DiffCall)
    /\ Exit("1")
    /\ UNCHANGED << eventAction, excludeInput, diff, parsedDiff, filteredDiff, diffChunkData,
                    rawAiResponse, correction, allReviews, comments, submitted >>

\* const filteredDiff = parsedDiff.filter(...)
FilterFiles ==
    /\ pc = "parsed"
    /\ filteredDiff' = FilterDiff(parsedDiff, excludeInput)
    /\ pc' = "filtered"
    /\ UNCHANGED << eventAction, excludeInput, diff, parsedDiff, diffChunkData,
                    rawAiResponse, correction, allReviews, comments, calls, submitted, exitCode >>

\* const diffChunkData = gatherDiffData(filteredDiff);
\* if (diffChunkData.length === 0) return;
GatherChunkDataNoReturn ==
    /\ pc = "filtered"
    /\ diffChunkData' = gatherDiffData(filteredDiff)
    /\ pc' = "prompt"
    /\ UNCHANGED << eventAction, excludeInput, diff, parsedDiff, filteredDiff,
                    rawAiResponse, correction, allReviews, comments, calls,
                    submitted, exitCode >>

GatherChunkData ==
    /\ pc = "filtered"
    /\ diffChunkData' = gatherDiffData(filteredDiff)
    /\ IF diffChunkData' = << >>
       THEN Exit("0")
       ELSE pc' = "prompt" /\ UNCHANGED exitCode
    /\ UNCHANGED << eventAction, excludeInput, diff, parsedDiff, filteredDiff,
                    rawAiResponse, correction, allReviews, comments, calls, submitted >>

\* const rawAiResponse = await getAIResponse(prompt);
PrimaryCall ==
    /\ pc = "prompt"
    /\ calls' = Append(calls, "primary")
    /\ \E o \in PrimaryOutcomes : rawAiResponse' = getAIResponse(o)
    /\ pc' = "format"
    /\ UNCHANGED << eventAction, excludeInput, diff, parsedDiff, filteredDiff, diffChunkData,
                    correction, allReviews, comments, submitted, exitCode >>

\* getFormattedAIResponse: if (!rawContent) return [];
SkipCorrection ==
    /\ pc = "format"
    /\ IsFalsy(rawAiResponse)
    /\ allReviews' = << >>
    /\ pc' = "map"
    /\ UNCHANGED << eventAction, excludeInput, diff, parsedDiff, filteredDiff, diffChunkData,
                    rawAiResponse, correction, comments, calls, submitted, exitCode >>

\* getFormattedAIResponse: await openai.beta.chat.completions.parse(...)
CorrectionCall ==
    /\ pc = "format"
    /\ ~IsFalsy(rawAiResponse)
    /\ calls' = Append(calls, "correction")
    /\ \E o \in CorrectionOutcomes :
          /\ correction' = o
          /\ allReviews' = CorrectionResult(o)
    /\ pc' = "map"
    /\ UNCHANGED << eventAction, excludeInput, diff, parsedDiff, filteredDiff, diffChunkData,
                    rawAiResponse, comments, submitted, exitCode >>

\* const comments = mapReviewsToComments(diffChunkData, allReviews);
\* if (comments.length > 0) ... ; otherwise main returns
MapCommentsAlwaysSubmit ==
    /\ pc = "map"
    /\ comments' = mapReviewsToComments(diffChunkData, allReviews)
    /\ pc' = "submit"
    /\ UNCHANGED << eventAction, excludeInput, diff, parsedDiff, filteredDiff,
                    diffChunkData, rawAiResponse, correction, allReviews, calls,
                    submitted, exitCode >>

MapComments ==
    /\ pc = "map"
    /\ comments' = mapReviewsToComments(diffChunkData, allReviews)
    /\ IF comments' = << >>
       THEN Exit("0")
       ELSE pc' = "submit" /\ UNCHANGED exitCode
    /\ UNCHANGED << eventAction, excludeInput, diff, parsedDiff, filteredDiff, diffChunkData,
                    rawAiResponse, correction, allReviews, calls, submitted >>

\* await createReviewComment(...): the review is created
SubmitReview ==
    /\ pc = "submit"
    /\ calls' = Append(calls, "createReview")
    /\ submitted' = Append(submitted, comments)
    /\ Exit("0")
    /\ UNCHANGED << eventAction, excludeInput, diff, parsedDiff, filteredDiff, diffChunkData,
                    rawAiResponse, correction, allReviews, comments >>

\* await createReviewComment(...) rejects; main().catch exits 1
SubmitReviewFailsSwallowed ==
    /\ pc = "submit"
    /\ calls' = Append(calls, "createReview")
    /\ Exit("0")
    /\ UNCHANGED << eventAction, excludeInput, diff, parsedDiff, filteredDiff,
                    diffChunkData, rawAiResponse, correction, allReviews, comments,
                    submitted >>

SubmitReviewFails ==
    /\ pc = "submit"
    /\ calls' = Append(calls, "createReview")
    /\ Exit("1")
    /\ UNCHANGED << eventAction, excludeInput, diff, parsedDiff, filteredDiff, diffChunkData,
                    rawAiResponse, correction, allReviews, comments, submitted >>

----------------------------------------------------------------------------
(* Specifications                                                          *)

\* The whole invocation, from the start of main().
Init ==
    /\ pc = "start"
    /\ eventAction \in EventKinds
    /\ excludeInput \in ExcludeInputs
    /\ diff = NotFetched
    /\ parsedDiff = << >>
    /\ filteredDiff = << >>
    /\ diffChunkData = << >>
    /\ rawAiResponse = NullString
    /\ correction = NoCorrection
    /\ allReviews = << >>
    /\ comments = << >>
    /\ calls = << >>
    /\ submitted = << >>
    /\ exitCode = "none"

Next ==
    \/ GetPRDetails
    \/ GetPRDetailsFails
    \/ UnsupportedEvent
    \/ FetchDiff
    \/ FetchDiffEmpty
    \/ FetchDiffFails
    \/ FilterFiles
    \/ GatherChunkData
    \/ PrimaryCall
    \/ SkipCorrection
    \/ CorrectionCall
    \/ MapComments
    \/ SubmitReview
    \/ SubmitReviewFails

Spec == Init /\ [][Next]_vars

\* The chunk indexer on every diff of up to MaxFiles files: main() right
\* after parseDiff returned.
InitGather ==
    /\ pc = "parsed"
    /\ eventAction = "opened"
    /\ excludeInput \in ExcludeInputs
    /\ parsedDiff \in Diffs
    /\ diff = DiffText(parsedDiff)
    /\ filteredDiff = << >>
    /\ diffChunkData = << >>
    /\ rawAiResponse = NullString
    /\ correction = NoCorrection
    /\ allReviews = << >>
    /\ comments = << >>
    /\ calls = << "pulls.get", "getDiff" >>
    /\ submitted = << >>
    /\ exitCode = "none"

NextGather == FilterFiles \/ GatherChunkData

SpecGather == InitGather /\ [][NextGather]_vars

\* The comment mapper on every answer of up to MaxItems review items:
\* main() right after getFormattedAIResponse returned.
MapDiffs ==
    { << File(PathPy, << HAdd >>) >>,
      << File(PathPy, << HAdd, HMix >>), File(PathMd, << HDel >>) >>,
      << File(DevNull, << HDel >>), File(PathMd, << HAdd >>) >> }

InitMap ==
    /\ pc = "map"
    /\ eventAction = "opened"
    /\ excludeInput = << >>
    /\ parsedDiff \in MapDiffs
    /\ diff = DiffText(parsedDiff)
    /\ filteredDiff = FilterDiff(parsedDiff, excludeInput)
    /\ diffChunkData = gatherDiffData(filteredDiff)
    /\ rawAiResponse = Str(<< "[", "]" >>)
    /\ allReviews \in ReviewSets
    /\ correction = Outcome("parsed", allReviews)
    /\ comments = << >>
    /\ calls = << "pulls.get", "getDiff", "primary", "correction" >>
    /\ submitted = << >>
    /\ exitCode = "none"

NextMap == MapComments \/ SubmitReview \/ SubmitReviewFails

SpecMap == InitMap /\ [][NextMap]_vars

\* The comment mapper on every line reference of up to MaxRefLen
\* characters: one chunk, one RIGHT review of it.
RefChars == {"+", "-", "0", "2", "4", "7", " ", "L"}

LineRefs == SeqsUpTo(RefChars, MaxRefLen)

InitLine ==
    /\ pc = "map"
    /\ eventAction = "opened"
    /\ excludeInput = << >>
    /\ parsedDiff = << File(PathPy, << HAdd >>) >>
    /\ diff = DiffText(parsedDiff)
    /\ filteredDiff = FilterDiff(parsedDiff, excludeInput)
    /\ diffChunkData = gatherDiffData(filteredDiff)
    /\ rawAiResponse = Str(<< "[", "]" >>)
    /\ \E ref \in LineRefs :
          allReviews = << [chunkIndex |-> 0,
                           reviews |-> << Review(ref, "RIGHT", "check this line") >>] >>
    /\ correction = Outcome("parsed", allReviews)
    /\ comments = << >>
    /\ calls = << "pulls.get", "getDiff", "primary", "correction" >>
    /\ submitted = << >>
    /\ exitCode = "none"

NextLine == MapComments \/ SubmitReview \/ SubmitReviewFails

SpecLine == InitLine /\ [][NextLine]_vars

----------------------------------------------------------------------------
(* Properties of the chunk indexer (SpecGather)                            *)

\* gatherDiffData has run
Gathered == pc \in {"prompt", "format", "map", "submit", "done"}

Before(q, p) == q[1] < p[1] \/ (q[1] = p[1] /\ q[2] < p[2])

\* how many members of S come before p in (first, second) order
Rank(S, p) == Cardinality({ q \in S : Before(q, p) })

\* << f, h >> for hunk h of file f
HunksOf(files, F) ==
    UNION { { << f, h >> : h \in 1..Len(files[f].chunks) } : f \in F }

Header(files, p) == files[p[1]].chunks[p[2]].content

NotDeleted(files) == { f \in 1..Len(files) : files[f].to # DevNull }

\* C1: the chunkIndex values of the chunks gatherDiffData returns are
\* 0, 1, ..., n-1 in that order, and the chunk with index k is the k-th hunk,
\* in file order then hunk order, of the files that are not deleted files.
C1_ContiguousIndex ==
    Gathered =>
        LET S == HunksOf(filteredDiff, NotDeleted(filteredDiff))
        IN  /\ Len(diffChunkData) = Cardinality(S)
            /\ \A i \in 1..Len(diffChunkData) : diffChunkData[i].chunkIndex = i - 1
            /\ \A p \in S :
                  LET c == diffChunkData[Rank(S, p) + 1]
                  IN  /\ c.chunkIndex = Rank(S, p)
                      /\ c.filePath = filteredDiff[p[1]].to
                      /\ c.diffText[1] = Header(filteredDiff, p)

\* a deleted file with a hunk comes first and is skipped; the two hunks of
\* the second file get the indexes 0 and 1
C1_Witness ==
    /\ pc = "prompt"
    /\ Len(filteredDiff) = 2
    /\ filteredDiff[1].to = DevNull
    /\ filteredDiff[1].chunks # << >>
    /\ Len(filteredDiff[2].chunks) = 2
    /\ Len(diffChunkData) = 2
    /\ diffChunkData[2].chunkIndex = 1

OnlyContextAndDeletion(hunk) ==
    \A i \in 1..Len(hunk.changes) : hunk.changes[i].type \in {"normal", "del"}

AllHunksContextAndDeletion(files) ==
    \A f \in 1..Len(files) : \A h \in 1..Len(files[f].chunks) :
        OnlyContextAndDeletion(files[f].chunks[h])

\* C6 as stated: a diff whose hunks hold only context and deletion lines
\* gives no chunk.
C6_OnlyContextAndDeletionEmpty ==
    (Gathered /\ AllHunksContextAndDeletion(filteredDiff)) => diffChunkData = << >>

\* C6 amended: a diff all of whose files are deleted files gives no chunk,
\* and a hunk of only context and deletion lines in a file that is not a
\* deleted file gives a chunk as any other hunk does.
C6_DeletedFilesEmpty ==
    Gathered =>
        /\ NotDeleted(filteredDiff) = {} => diffChunkData = << >>
        /\ \A p \in HunksOf(filteredDiff, NotDeleted(filteredDiff)) :
              OnlyContextAndDeletion(filteredDiff[p[1]].chunks[p[2]]) =>
                 \E i \in 1..Len(diffChunkData) :
                    /\ diffChunkData[i].filePath = filteredDiff[p[1]].to
                    /\ diffChunkData[i].diffText[1] = Header(filteredDiff, p)

\* two deleted files with hunks: nothing to analyse
C6_Witness ==
    /\ pc = "done"
    /\ Len(filteredDiff) = 2
    /\ \A f \in 1..2 : filteredDiff[f].to = DevNull /\ filteredDiff[f].chunks # << >>
    /\ diffChunkData = << >>

\* the file's path matches one of the patterns of the `exclude` input
MatchesExclusion(path) ==
    LET parts == Split(excludeInput, ",")
    IN  \E i \in 1..Len(parts) : minimatch(path, Trim(parts[i]))

\* the files of the parsed diff that match no pattern and are not deleted
Reviewed == { f \in 1..Len(parsedDiff) :
                 ~MatchesExclusion(parsedDiff[f].to) /\ parsedDiff[f].to # DevNull }

\* C9: the chunks are exactly the hunks of the files that match no exclusion
\* pattern and are not deleted files, one chunk for each hunk; a file that
\* matches a pattern gives none.
C9_ExclusionFilter ==
    Gathered =>
        LET S == HunksOf(parsedDiff, Reviewed)
        IN  /\ Len(diffChunkData) = Cardinality(S)
            /\ \A p \in S :
                  LET c == diffChunkData[Rank(S, p) + 1]
                  IN  /\ c.filePath = parsedDiff[p[1]].to
                      /\ c.diffText[1] = Header(parsedDiff, p)
            /\ \A f \in 1..Len(parsedDiff) :
                  MatchesExclusion(parsedDiff[f].to) =>
                     \A i \in 1..Len(diffChunkData) :
                        diffChunkData[i].filePath # parsedDiff[f].to

\* with the pattern "*.md" the file b.md gives nothing and both hunks of
\* a.py are chunks
C9_Witness ==
    /\ pc = "prompt"
    /\ excludeInput = << "*", ".", "m", "d" >>
    /\ Len(parsedDiff) = 2
    /\ parsedDiff[1].to = PathMd /\ parsedDiff[1].chunks # << >>
    /\ parsedDiff[2].to = PathPy /\ Len(parsedDiff[2].chunks) = 2
    /\ Len(diffChunkData) = 2
    /\ diffChunkData[1].filePath = PathPy

DeletedHunks(files) == HunksOf(files, { f \in 1..Len(files) : files[f].to = DevNull })

AllHunks(files) == HunksOf(files, 1..Len(files))

\* C10: no chunk belongs to a file whose path is /dev/null, and such a file
\* uses up no chunkIndex: the indexes stay below the number of hunks of the
\* other files that reach gatherDiffData.
C10_DeletedFileNoChunk ==
    Gathered =>
        /\ \A i \in 1..Len(diffChunkData) : diffChunkData[i].filePath # DevNull
        /\ \A i \in 1..Len(diffChunkData) :
              diffChunkData[i].chunkIndex <
                 Cardinality(AllHunks(filteredDiff)) - Cardinality(DeletedHunks(filteredDiff))

\* no exclusion pattern, a deleted file with a hunk, then a file whose
\* first hunk gets index 0
C10_Witness ==
    /\ pc = "prompt"
    /\ excludeInput = << >>
    /\ Len(parsedDiff) = 2
    /\ parsedDiff[1].to = DevNull /\ parsedDiff[1].chunks # << >>
    /\ parsedDiff[2].to = PathPy
    /\ Len(diffChunkData) >= 1
    /\ diffChunkData[1].chunkIndex = 0
    /\ diffChunkData[1].filePath = PathPy

----------------------------------------------------------------------------
(* Properties of the comment mapper (SpecMap)                              *)

\* mapReviewsToComments has run
Mapped == pc \in {"submit", "done"}

\* a line reference made of an optional sign and one or more digits
RefDigits(ref) ==
    IF ref # << >> /\ ref[1] \in {"+", "-"} THEN Tail(ref) ELSE ref

WellFormedRef(ref) ==
    /\ RefDigits(ref) # << >>
    /\ \A i \in 1..Len(RefDigits(ref)) : IsDigit(RefDigits(ref)[i])

RECURSIVE Pow10(_)
Pow10(n) == IF n = 0 THEN 1 ELSE 10 * Pow10(n - 1)

RECURSIVE PlaceSum(_, _)
PlaceSum(d, i) ==
    IF i > Len(d) THEN 0
    ELSE DigitValue(d[i]) * Pow10(Len(d) - i) + PlaceSum(d, i + 1)

\* the number a well-formed line reference names, without its sign
Magnitude(ref) == PlaceSum(RefDigits(ref), 1)

\* review item i names an indexed chunk
MatchedItem(i) ==
    \E k \in 1..Len(diffChunkData) : diffChunkData[k].chunkIndex = allReviews[i].chunkIndex

ChunkFor(i) ==
    diffChunkData[CHOOSE k \in 1..Len(diffChunkData) :
                     diffChunkData[k].chunkIndex = allReviews[i].chunkIndex]

ReviewAt(p) == allReviews[p[1]].reviews[p[2]]

\* << i, j >> for review j of item i, over the items that name a chunk
ReviewsOfMatched ==
    UNION { { << i, j >> : j \in 1..Len(allReviews[i].reviews) } :
            i \in { i \in 1..Len(allReviews) : MatchedItem(i) } }

RightReviews == { p \in ReviewsOfMatched : ReviewAt(p).side = "RIGHT" }

\* C2: the comments are, in order, one for each RIGHT review of each item
\* that names an indexed chunk, with that chunk's path, side RIGHT, the
\* review's text and, for a reference made of an optional sign and digits,
\* the number the digits spell; there is no other comment.
C2_OneCommentPerRightReview ==
    Mapped =>
        /\ Len(comments) = Cardinality(RightReviews)
        /\ \A p \in RightReviews :
              LET c == comments[Rank(RightReviews, p) + 1]
              IN  /\ c.path = ChunkFor(p[1]).filePath
                  /\ c.side = "RIGHT"
                  /\ c.body = ReviewAt(p).reviewComment
                  /\ WellFormedRef(ReviewAt(p).lineNumber) =>
                        c.line = Magnitude(ReviewAt(p).lineNumber)

\* one chunk 0 of a.py and the answer [{0, [{"+2", RIGHT, text}]}]
C2_Witness ==
    /\ pc = "submit"
    /\ Len(diffChunkData) = 1
    /\ diffChunkData[1].chunkIndex = 0
    /\ allReviews = << [chunkIndex |-> 0, reviews |-> << RPlus2 >>] >>
    /\ comments = << [body |-> "possible off-by-one", path |-> PathPy,
                      line |-> 2, side |-> "RIGHT"] >>

\* the hunk that the chunk with index k was made from
HunkOfChunk(k) ==
    LET S == HunksOf(filteredDiff, NotDeleted(filteredDiff))
        p == CHOOSE q \in S : Rank(S, q) = k
    IN  filteredDiff[p[1]].chunks[p[2]]

\* the line numbers a hunk shows on a side
SideLines(hunk, side) ==
    IF side = "RIGHT"
    THEN { hunk.changes[i].ln : i \in { i \in 1..Len(hunk.changes) : hunk.changes[i].type = "add" } }
         \cup { hunk.changes[i].ln2 : i \in { i \in 1..Len(hunk.changes) : hunk.changes[i].type = "normal" } }
    ELSE { hunk.changes[i].ln : i \in { i \in 1..Len(hunk.changes) : hunk.changes[i].type = "del" } }
         \cup { hunk.changes[i].ln1 : i \in { i \in 1..Len(hunk.changes) : hunk.changes[i].type = "normal" } }

\* C5: the line of every comment is a line number of the chunk the review
\* item names, on the comment's side.
C5_LineInChunk ==
    Mapped =>
        \A p \in RightReviews :
            LET c == comments[Rank(RightReviews, p) + 1]
            IN  c.line \in SideLines(HunkOfChunk(allReviews[p[1]].chunkIndex), c.side)

\* C7: a review item that names no indexed chunk gives no comment and stops
\* nothing: mapping always completes, every comment comes from a review of
\* an item that names a chunk, and every RIGHT review of such an item has
\* its comment.
C7_UnknownChunkDropped ==
    /\ pc = "map" => ENABLED MapComments
    /\ Mapped =>
          /\ \A k \in 1..Len(comments) :
                \E p \in ReviewsOfMatched :
                   /\ comments[k].body = ReviewAt(p).reviewComment
                   /\ comments[k].path = ChunkFor(p[1]).filePath
          /\ \A p \in RightReviews :
                \E k \in 1..Len(comments) :
                   /\ comments[k].body = ReviewAt(p).reviewComment
                   /\ comments[k].path = ChunkFor(p[1]).filePath
          /\ (\A i \in 1..Len(allReviews) : ~MatchedItem(i)) => comments = << >>

\* the first item names chunk 99, the second chunk 0: one comment, from the
\* second item
C7_Witness ==
    /\ pc = "submit"
    /\ Len(allReviews) = 2
    /\ allReviews[1] = [chunkIndex |-> 99, reviews |-> << RMinus1, RPlus2 >>]
    /\ allReviews[2] = [chunkIndex |-> 0, reviews |-> << RPlus2 >>]
    /\ Len(comments) = 1
    /\ comments[1].body = RPlus2.reviewComment
    /\ comments[1].line = 2

AllRight(list) == \A k \in 1..Len(list) : list[k].side = "RIGHT"

\* C8: no comment that is mapped or handed to createReview has side LEFT:
\* the LEFT reviews are dropped, so there are no more comments than reviews
\* of another side.
C8_NoLeftComment ==
    /\ AllRight(comments)
    /\ \A n \in 1..Len(submitted) : AllRight(submitted[n])
    /\ Mapped =>
          Len(comments) <=
             Cardinality({ p \in ReviewsOfMatched : ReviewAt(p).side # "LEFT" })

\* a review with a LEFT review next to a RIGHT one was submitted: one comment
C8_Witness ==
    /\ pc = "done"
    /\ exitCode = "0"
    /\ allReviews = << [chunkIndex |-> 0, reviews |-> << RLeft2, R42 >>] >>
    /\ Len(submitted) = 1
    /\ Len(submitted[1]) = 1
    /\ submitted[1][1].side = "RIGHT"

----------------------------------------------------------------------------
(* Properties of the whole invocation (Spec)                               *)

Called(name) == \E i \in 1..Len(calls) : calls[i] = name

\* the primary model call was made and failed, or gave empty text
PrimaryGaveNothing ==
    /\ Called("primary")
    /\ rawAiResponse.isNull \/ rawAiResponse.text = << >>

\* C3: after a primary call that failed or gave empty text, the correction
\* call is not made, there is no comment, no review is submitted, and the
\* invocation does not exit with 1: when it ends, it ends with 0.
C3_PrimaryFailureSkipsCorrection ==
    PrimaryGaveNothing =>
        /\ ~Called("correction")
        /\ ~Called("createReview")
        /\ allReviews = << >>
        /\ comments = << >>
        /\ submitted = << >>
        /\ exitCode # "1"
        /\ pc = "done" => exitCode = "0"
        /\ pc # "submit"

\* the primary call answered with white space only and the run has ended
C3_Witness ==
    /\ pc = "done"
    /\ exitCode = "0"
    /\ Called("primary")
    /\ ~rawAiResponse.isNull
    /\ rawAiResponse.text = << >>
    /\ calls = << "pulls.get", "getDiff", "primary" >>

\* C4: after a correction call that failed, or whose answer did not parse
\* against the schema, the list of review items is empty, whatever part of
\* the answer was well formed; there is no comment and no review is
\* submitted.
C4_CorrectionFailureEmpty ==
    correction.kind \in {"callFails", "schemaInvalid"} =>
        /\ allReviews = << >>
        /\ comments = << >>
        /\ submitted = << >>
        /\ ~Called("createReview")
        /\ pc # "submit"

\* the answer did not parse although part of it held a review of chunk 0
C4_Witness ==
    /\ pc = "done"
    /\ exitCode = "0"
    /\ correction = Outcome("schemaInvalid",
                            << [chunkIndex |-> 0, reviews |-> << RPlus2 >>] >>)
    /\ diffChunkData # << >>
    /\ diffChunkData[1].chunkIndex = 0
    /\ comments = << >>

----------------------------------------------------------------------------
(* Properties of line-reference parsing (SpecLine)                         *)

\* C11: the sign of a line reference is dropped and its digits are kept:
\* a reference made of an optional "+" or "-" and digits gives the line the
\* digits spell, so "+42" and "42" give 42 and "-7" gives 7.
C11_SignDiscarded ==
    Mapped =>
        \A p \in RightReviews :
            LET ref == ReviewAt(p).lineNumber
                c   == comments[Rank(RightReviews, p) + 1]
            IN  /\ WellFormedRef(ref) => (c.line = Magnitude(ref) /\ c.line >= 0)
                /\ ref \in { << "+", "4", "2" >>, << "4", "2" >> } => c.line = 42
                /\ ref = << "-", "7" >> => c.line = 7

\* the reference "-7" has been mapped to line 7
C11_Witness ==
    /\ pc = "submit"
    /\ Len(allReviews) = 1
    /\ allReviews[1].reviews[1].lineNumber = << "-", "7" >>
    /\ Len(comments) = 1
    /\ comments[1].line = 7

----------------------------------------------------------------------------
(* Properties of the exit status and of the order of calls (Spec)          *)

\* createReview was asked for and rejected
SubmissionFailed == Called("createReview") /\ submitted = << >>

\* one of the two model requests rejected
ModelCallFailed ==
    \/ Called("primary") /\ rawAiResponse.isNull
    \/ correction.kind = "callFails"

\* C12: when createReview rejects, the invocation ends with exit status 1;
\* a model request that rejects never leads to exit status 1.
C12_SubmissionFailureFatal ==
    /\ SubmissionFailed => (pc = "done" /\ exitCode = "1")
    /\ ModelCallFailed => (exitCode # "1" /\ (pc = "done" => exitCode = "0"))

\* createReview rejected after both model requests answered
C12_Witness ==
    /\ pc = "done"
    /\ exitCode = "1"
    /\ calls = << "pulls.get", "getDiff", "primary", "correction", "createReview" >>
    /\ comments # << >>
    /\ submitted = << >>

\* C13: with an event kind other than opened and synchronize, no diff is
\* asked for, no model request and no createReview is made, and the
\* invocation does not end with exit status 1.
C13_UnsupportedEventNoOp ==
    eventAction \notin {"opened", "synchronize"} =>
        /\ ~Called("getDiff")
        /\ ~Called("compareCommits")
        /\ ~Called("primary")
        /\ ~Called("correction")
        /\ ~Called("createReview")
        /\ exitCode # "1"

\* the diff is null or "", or is a text in which parse-diff finds no file
NothingToReview ==
    \/ diff.kind \in {"null", "empty"}
    \/ diff.kind = "text" /\ diff.files = << >>

Stage(c) ==
    CASE c \in {"getDiff", "compareCommits"} -> 1
      [] c = "primary" -> 2
      [] c = "correction" -> 3
      [] c = "createReview" -> 4
      [] OTHER -> 0

\* C15: the calls for the diff, to the primary model, to the correction
\* model and to createReview are made in that order, none of them twice,
\* each after the stage before it has given its result, and createReview
\* only with a list of comments that is not empty.
C15_CallsInOrder ==
    /\ \A i, j \in 1..Len(calls) :
          (i < j /\ Stage(calls[i]) > 0 /\ Stage(calls[j]) > 0) =>
             Stage(calls[i]) < Stage(calls[j])
    /\ Called("primary") => (diff.kind = "text" /\ diffChunkData # << >>)
    /\ Called("correction") =>
          (Called("primary") /\ ~rawAiResponse.isNull /\ rawAiResponse.text # << >>)
    /\ Called("createReview") => (comments # << >> /\ Len(submitted) <= 1)
    /\ \A n \in 1..Len(submitted) : submitted[n] = comments /\ submitted[n] # << >>

\* all four calls were made, one after the other, after a push
C15_Witness ==
    /\ pc = "done"
    /\ exitCode = "0"
    /\ calls = << "pulls.get", "compareCommits", "primary", "correction", "createReview" >>
    /\ submitted = << comments >>

----------------------------------------------------------------------------
(* Properties of the rendered text (SpecGather)                            *)

\* the number the rendered line of a change starts with, were it the old
\* number of every line that has one
OldFirstNumber(c) ==
    IF c.type = "add" THEN c.ln ELSE IF c.type = "del" THEN c.ln ELSE c.ln1

\* the number it starts with: the number of an added or deleted line, the
\* new number of a context line
OwnOrNewNumber(c) ==
    IF c.type = "normal" THEN c.ln2 ELSE c.ln

\* C16 as stated: the text of a chunk is the hunk header followed by one
\* line for each change, in order, that starts with the old number of the
\* change if it has one and with its new number if not.
C16_OldNumberFirst ==
    Gathered =>
        LET S == HunksOf(filteredDiff, NotDeleted(filteredDiff))
        IN  \A p \in S :
               LET t == diffChunkData[Rank(S, p) + 1].diffText
                   h == filteredDiff[p[1]].chunks[p[2]]
               IN  /\ t[1] = h.content
                   /\ Len(t) = 1 + Len(h.changes)
                   /\ \A i \in 1..Len(h.changes) :
                         t[i + 1] = << OldFirstNumber(h.changes[i]), h.changes[i].content >>

\* C16 amended: the text of a chunk is the hunk header followed by one line
\* for each change, in order, that starts with the new number of an added
\* line, the old number of a deleted line and the new number of a context
\* line.
C16_OwnOrNewNumber ==
    Gathered =>
        LET S == HunksOf(filteredDiff, NotDeleted(filteredDiff))
        IN  \A p \in S :
               LET t == diffChunkData[Rank(S, p) + 1].diffText
                   h == filteredDiff[p[1]].chunks[p[2]]
               IN  /\ t[1] = h.content
                   /\ Len(t) = 1 + Len(h.changes)
                   /\ \A i \in 1..Len(h.changes) :
                         t[i + 1] = << OwnOrNewNumber(h.changes[i]), h.changes[i].content >>

\* the hunk @@ -10,2 +9,2 @@ is chunk 1: its context line, old 10 and new 9,
\* is shown as line 9
C16_Witness ==
    /\ pc = "prompt"
    /\ Len(diffChunkData) >= 2
    /\ diffChunkData[2].diffText =
          << "@@ -10,2 +9,2 @@", << 9, " k" >>, << 11, "-d" >>, << 10, "+a" >> >>

====
